---------------------------- MODULE Spec2Model ----------------------------
(***************************************************************************)
(* mcap-manager: the merge engine (merge.py, merge_mcap_files), the query  *)
(* engine (query.py, query_mcap_files), the topic filter (utils.py,        *)
(* check_topic_filters) and the part of the merge command (cli.py) that    *)
(* runs the two queries and hands their results to the merge engine.       *)
(*                                                                         *)
(* Spec      the merge engine run on any results list                      *)
(* SpecCli   the merge command: root query, transient query, merge         *)
(* SpecFlt   the topic filter applied to any topic and any pair of sets    *)
(* SpecFail  the merge engine on files whose reader may raise              *)
(* SpecTwice the merge engine called twice on the same input               *)
(* SpecPre   the merge command from its command line on                    *)
(***************************************************************************)
EXTENDS Integers, Sequences, FiniteSets, TLC

\* ------------------------------------------------------------------ bounds
NumFiles   == 2     \* files on disk / entries of the results list
MaxRecs    == 3     \* records read from the input files in one merge run
CliMaxRecs == 2     \* records held by the files of one merge command run
MaxTime    == 2     \* timestamps are 0..MaxTime
MaxLatched == 2     \* latched_transient_output_msgs is 1..MaxLatched

Topics      == {"x", "y"}
SchemaNames == {"s1", "s2"}
Times       == 0 .. MaxTime
PublishLags == {0, 1}              \* publish_time - log_time of the records

\* The reserved schema of the transient-only step (merge.py:224-229).
PLACEHOLDER == "transient_schema"
AllSchemaNames == SchemaNames \cup {PLACEHOLDER}
SchemaIdRange  == 1 .. Cardinality(AllSchemaNames)

\* Where a file lies: directly under the root, under <root>/transient_output
\* (the directory the merge command queries a second time), or under a
\* directory such as <root>/transient_outputs, whose name only contains the
\* marker (the directory the test fixtures create, conftest.py:81).
Dirs == {"root", "transient_output", "transient_outputs"}

\* An optional argument: None, or a value.
None      == [none |-> TRUE,  v |-> {}]
Some(s)   == [none |-> FALSE, v |-> s]

VARIABLES
    \* arguments of merge_mcap_files
    results,            \* list of QueryResult
    include_topics,     \* None or Some(set of topics)
    exclude_topics,     \* None or Some(set of topics)
    latched,            \* latched_transient_output_msgs
    start_ns,           \* {} (None) or {t}
    \* locals of merge_mcap_files
    pc,                 \* position in the code
    fi,                 \* index of the current result in the current loop
    ri,                 \* records of the current file consumed so far
    schema_ids,         \* schema name -> id, 0 when the name is no key
    channel_ids,        \* <<schema id, topic>> -> id, 0 when no key
    tkeys,              \* keys of transient_messages, in insertion order
    tbuf,               \* transient_messages: topic -> list of <<ts, data>>
    p1_channels,        \* history: channels registered when pass 1 ended
    \* the output writer
    w_schemas,          \* registered schema names, by id
    w_channels,         \* registered channels [schema_id, topic], by id
    w_messages,         \* messages written, in order
    w_finished,         \* number of calls of writer.finish()
    \* locals of query_mcap_files and of the merge command
    end_ns,             \* end of the query window
    tree,               \* the .mcap files under the root, in scan order
    mcap_files,         \* the files the running query scans
    matching_topics,    \* of the file being scanned
    file_start_time,    \* {} (None) or {t}
    file_end_time,      \* {} (None) or {t}
    \* the environment
    disk,               \* file id -> the records a reader has yielded
    lag,                \* publish_time - log_time of the recorded messages
    nread,              \* records drawn from the input so far
    \* one call of check_topic_filters
    f_topic, f_result,
    \* input files whose reader raised: [id, at], at = records yielded before
    failed,
    \* merge_mcap_files called a second time on the same input
    run,                \* 1 or 2
    first_run,          \* <<>>, or <<what the first run registered and wrote>>
    \* the merge command
    opts,               \* the options of the command line
    status              \* "" or the error the command exits with

args   == <<results, include_topics, exclude_topics, latched, start_ns>>
regs   == <<schema_ids, channel_ids, w_schemas, w_channels>>
buf    == <<tkeys, tbuf, p1_channels>>
qvars  == <<end_ns, tree, mcap_files, matching_topics, file_start_time,
            file_end_time>>
fvars  == <<f_topic, f_result>>
cvars  == <<opts, status>>
xvars  == <<failed, run, first_run, cvars>>

vars == <<args, pc, fi, ri, regs, buf, w_messages, w_finished, qvars, disk,
          lag, nread, fvars, xvars>>

\* ------------------------------------------------------------- utils.py
\* Python truthiness of an optional set: None and the empty set are false.
Truthy(opt) == ~opt.none /\ opt.v # {}

check_topic_filters_IncludeWins(topic, inc, exc) ==
    IF Truthy(inc) THEN topic \in inc.v
    ELSE IF Truthy(exc) /\ topic \in exc.v THEN FALSE
    ELSE TRUE

check_topic_filters(topic, inc, exc) ==
    IF Truthy(inc) /\ topic \notin inc.v THEN FALSE
    ELSE IF Truthy(exc) /\ topic \in exc.v THEN FALSE
    ELSE TRUE

\* ------------------------------------------------------------- merge.py
\* set(include_topics) raises TypeError when the argument is None
\* (merge.py:61,125); the handler of line 94/200 then ends the file.
FilterArgsRaise == include_topics.none \/ exclude_topics.none

Admitted_All(topic) == TRUE

Admitted(topic) == check_topic_filters(topic, include_topics, exclude_topics)

HasTransientMarker_Segment(path) == path.dir = "transient_output"

\* "transient_output" in result.file_path: a substring test.
HasTransientMarker(path) == path.dir \in {"transient_output", "transient_outputs"}

\* The records the reader may yield next. A file that a query has scanned
\* yields the same records again; any other file yields a record drawn here.
\* The n-th record drawn carries the payload n, so payloads identify records.
Records(n) ==
    { [topic |-> t, schema |-> s, log_time |-> lt, publish_time |-> lt + lag,
       data |-> n] : t \in Topics, s \in SchemaNames, lt \in Times }

ReadableRecs(id, i, limit) ==
    IF disk[id].complete
    THEN (IF i < Len(disk[id].recs) THEN {disk[id].recs[i + 1]} ELSE {})
    ELSE (IF nread < limit THEN Records(nread + 1) ELSE {})

\* The reader stops after i records: the file is empty, it cannot be opened,
\* the reader raises, or the records are exhausted.
CanEnd(id, i) == disk[id].complete => i >= Len(disk[id].recs)

\* What a read leaves on disk and in the count of records drawn.
Drawn(id) ==
    IF disk[id].complete THEN nread ELSE nread + 1

\* list.sort(key=lambda x: x[0]): stable, ascending by timestamp.
RECURSIVE InsertByTs(_, _)
InsertByTs(sorted, e) ==
    IF sorted = <<>> THEN <<e>>
    ELSE IF sorted[Len(sorted)][1] <= e[1] THEN Append(sorted, e)
    ELSE Append(InsertByTs(SubSeq(sorted, 1, Len(sorted) - 1), e),
                sorted[Len(sorted)])

NoSort(s) == s

RECURSIVE SortByTs_Descending(_)
SortByTs_Descending(s) ==
    IF s = <<>> THEN <<>>
    ELSE LET rest == SortByTs_Descending(SubSeq(s, 1, Len(s) - 1))
             e    == s[Len(s)]
             Later(a) == a[1] > e[1]
             NotLater(a) == a[1] <= e[1]
         IN  SelectSeq(rest, Later) \o <<e>> \o SelectSeq(rest, NotLater)

RECURSIVE SortByTs(_)
SortByTs(s) ==
    IF s = <<>> THEN <<>>
    ELSE InsertByTs(SortByTs(SubSeq(s, 1, Len(s) - 1)), s[Len(s)])

SliceFromMinus_Head(s, n) ==
    SubSeq(s, 1, IF n < Len(s) THEN n ELSE Len(s))

\* Python s[-n:]
SliceFromMinus(s, n) ==
    LET start == IF n > 0 THEN (IF Len(s) - n > 0 THEN Len(s) - n ELSE 0)
                 ELSE (IF -n < Len(s) THEN -n ELSE Len(s))
    IN  SubSeq(s, start + 1, Len(s))

SelectBefore_Inclusive(t_messages, T) ==
    LET Earlier(e) == e[1] <= T IN SelectSeq(t_messages, Earlier)

SelectBefore(t_messages, T) ==
    LET Earlier(e) == e[1] < T IN SelectSeq(t_messages, Earlier)

\* before_messages[-latched_transient_output_msgs:]
LatchedSelection(t_messages, T) ==
    SliceFromMinus(SelectBefore(t_messages, T), latched)

AdjustedLogTime_Inclusive(ts, T) ==
    IF start_ns # {} /\ (\E s \in start_ns : ts <= s)
    THEN CHOOSE s \in start_ns : TRUE
    ELSE T

AdjustedLogTime(ts, T) ==
    IF start_ns # {} /\ (\E s \in start_ns : ts < s)
    THEN CHOOSE s \in start_ns : TRUE
    ELSE T

LatchedPublishTime_LogTime(message) == message.log_time

\* The publish time of a latched message triggered by the record message.
LatchedPublishTime(message) == message.publish_time

\* The schema id under which the channel of a latched topic is looked up.
LatchedSchemaId(schema_id, t_topic) == schema_id

LatchedTopicSkipped_Own(t_topic, message) ==
    ~Admitted(t_topic) \/ t_topic = message.topic

\* The topics of transient_messages the loop of line 157 passes over.
LatchedTopicSkipped(t_topic, message) == ~Admitted(t_topic)

RegSchemas_Always(name, sids, schemas) ==
    [ids |-> [sids EXCEPT ![name] = Len(schemas) + 1],
     reg |-> Append(schemas, name)]

\* Register the schema of a record when its name is no key of schema_ids.
RegSchemas(name, sids, schemas) ==
    IF sids[name] = 0
    THEN [ids |-> [sids EXCEPT ![name] = Len(schemas) + 1],
          reg |-> Append(schemas, name)]
    ELSE [ids |-> sids, reg |-> schemas]

RegChannels_Unregistered(key, cids, chans) ==
    IF cids[key] = 0
    THEN [ids |-> [cids EXCEPT ![key] = Len(chans) + 1], reg |-> chans]
    ELSE [ids |-> cids, reg |-> chans]

\* Register a channel when <<schema id, topic>> is no key of channel_ids.
RegChannels(key, cids, chans) ==
    IF cids[key] = 0
    THEN [ids |-> [cids EXCEPT ![key] = Len(chans) + 1],
          reg |-> Append(chans, [schema_id |-> key[1], topic |-> key[2]])]
    ELSE [ids |-> cids, reg |-> chans]

LatchedMessages(sel, cid, message) ==
    [i \in 1 .. Len(sel) |->
        [channel_id |-> cid,
         log_time |-> AdjustedLogTime(sel[i][1], message.log_time),
         data |-> sel[i][2],
         publish_time |-> LatchedPublishTime(message),
         kind |-> "latched"]]

\* for t_topic, t_messages in transient_messages.items(): ...
RECURSIVE EmitLatched(_, _, _, _, _, _)
EmitLatched(keys, message, schema_id, cids, chans, msgs) ==
    IF keys = <<>> THEN [cids |-> cids, chans |-> chans, msgs |-> msgs]
    ELSE LET t_topic == Head(keys) IN
         IF LatchedTopicSkipped(t_topic, message)
         THEN EmitLatched(Tail(keys), message, schema_id, cids, chans, msgs)
         ELSE LET key == <<LatchedSchemaId(schema_id, t_topic), t_topic>>
                  rc  == RegChannels(key, cids, chans)
                  sel == LatchedSelection(tbuf[t_topic], message.log_time)
              IN  EmitLatched(Tail(keys), message, schema_id, rc.ids, rc.reg,
                      msgs \o LatchedMessages(sel, rc.ids[key], message))

\* ------------------------------------------------ merge.py, the two passes
AtFile == fi <= Len(results)
CurId  == results[fi].file_path.id

\* Pass 1, a result that is no transient file: continue.
Pass1Skip ==
    /\ pc = "pass1" /\ AtFile
    /\ ~HasTransientMarker(results[fi].file_path)
    /\ fi' = fi + 1
    /\ UNCHANGED <<args, pc, ri, regs, buf, w_messages, w_finished, qvars,
                   disk, lag, nread, fvars, xvars>>

\* Pass 1, one record of a transient file.
Pass1Record ==
    /\ pc = "pass1" /\ AtFile
    /\ HasTransientMarker(results[fi].file_path)
    /\ \E message \in ReadableRecs(CurId, ri, MaxRecs) :
        /\ nread' = Drawn(CurId)
        /\ IF FilterArgsRaise
           THEN /\ fi' = fi + 1 /\ ri' = 0
                /\ UNCHANGED <<regs, buf>>
           ELSE IF ~Admitted(message.topic)
           THEN /\ ri' = ri + 1
                /\ UNCHANGED <<fi, regs, buf>>
           ELSE LET rs  == RegSchemas(message.schema, schema_ids, w_schemas)
                    key == <<rs.ids[message.schema], message.topic>>
                    rc  == RegChannels(key, channel_ids, w_channels)
                IN  /\ schema_ids' = rs.ids
                    /\ w_schemas' = rs.reg
                    /\ channel_ids' = rc.ids
                    /\ w_channels' = rc.reg
                    /\ tkeys' = IF \E k \in 1 .. Len(tkeys) : tkeys[k] = message.topic
                                THEN tkeys ELSE Append(tkeys, message.topic)
                    /\ tbuf' = [tbuf EXCEPT ![message.topic] =
                                   Append(@, <<message.log_time, message.data>>)]
                    /\ ri' = ri + 1
                    /\ UNCHANGED <<fi, p1_channels>>
    /\ UNCHANGED <<args, pc, w_messages, w_finished, qvars, disk, lag, fvars,
                   xvars>>

\* Pass 1, the current transient file ends.
Pass1EndFile ==
    /\ pc = "pass1" /\ AtFile
    /\ HasTransientMarker(results[fi].file_path)
    /\ CanEnd(CurId, ri)
    /\ fi' = fi + 1 /\ ri' = 0
    /\ UNCHANGED <<args, pc, regs, buf, w_messages, w_finished, qvars, disk,
                   lag, nread, fvars, xvars>>

\* Between the passes: sort the buffer of every topic.
SortBuffers ==
    /\ pc = "pass1" /\ ~AtFile
    /\ tbuf' = [t \in Topics |-> SortByTs(tbuf[t])]
    /\ p1_channels' = Len(w_channels)
    /\ pc' = "pass2" /\ fi' = 1 /\ ri' = 0
    /\ UNCHANGED <<args, regs, tkeys, w_messages, w_finished, qvars, disk,
                   lag, nread, fvars, xvars>>

\* Pass 2, a transient file: continue.
Pass2Skip ==
    /\ pc = "pass2" /\ AtFile
    /\ HasTransientMarker(results[fi].file_path)
    /\ fi' = fi + 1
    /\ UNCHANGED <<args, pc, ri, regs, buf, w_messages, w_finished, qvars,
                   disk, lag, nread, fvars, xvars>>

\* The live message of a regular record.
LiveMessage(message, cid) ==
    [channel_id |-> cid, log_time |-> message.log_time, data |-> message.data,
     publish_time |-> message.publish_time, kind |-> "live"]

\* Pass 2, one record of a regular file: the live message, then the latched
\* messages of every topic of transient_messages.
Pass2Record ==
    /\ pc = "pass2" /\ AtFile
    /\ ~HasTransientMarker(results[fi].file_path)
    /\ \E message \in ReadableRecs(CurId, ri, MaxRecs) :
        /\ nread' = Drawn(CurId)
        /\ IF FilterArgsRaise
           THEN /\ fi' = fi + 1 /\ ri' = 0
                /\ UNCHANGED <<regs, w_messages>>
           ELSE IF ~Admitted(message.topic)
           THEN /\ ri' = ri + 1
                /\ UNCHANGED <<fi, regs, w_messages>>
           ELSE LET rs   == RegSchemas(message.schema, schema_ids, w_schemas)
                    sid  == rs.ids[message.schema]
                    key  == <<sid, message.topic>>
                    rc   == RegChannels(key, channel_ids, w_channels)
                    out1 == Append(w_messages, LiveMessage(message, rc.ids[key]))
                    em   == EmitLatched(tkeys, message, sid, rc.ids, rc.reg,
                                        out1)
                IN  /\ schema_ids' = rs.ids
                    /\ w_schemas' = rs.reg
                    /\ channel_ids' = em.cids
                    /\ w_channels' = em.chans
                    /\ w_messages' = em.msgs
                    /\ ri' = ri + 1
                    /\ UNCHANGED fi
    /\ UNCHANGED <<args, pc, buf, w_finished, qvars, disk, lag, fvars,
                   xvars>>

\* Pass 2, the current regular file ends.
Pass2EndFile ==
    /\ pc = "pass2" /\ AtFile
    /\ ~HasTransientMarker(results[fi].file_path)
    /\ CanEnd(CurId, ri)
    /\ fi' = fi + 1 /\ ri' = 0
    /\ UNCHANGED <<args, pc, regs, buf, w_messages, w_finished, qvars, disk,
                   lag, nread, fvars, xvars>>

\* not any("transient_output" not in r.file_path for r in results)
OnlyTransientResults ==
    \A k \in 1 .. Len(results) : HasTransientMarker(results[k].file_path)

\* The schema the transient-only step binds the channel of topic to.
TransientOnlySchema(topic) == PLACEHOLDER

\* for topic, messages in transient_messages.items(): write messages[0]
RECURSIVE WriteFirsts(_, _, _, _, _, _)
WriteFirsts(keys, sids, schemas, cids, chans, msgs) ==
    IF keys = <<>>
    THEN [sids |-> sids, schemas |-> schemas, cids |-> cids, chans |-> chans,
          msgs |-> msgs]
    ELSE LET topic == Head(keys) IN
         IF ~Admitted(topic) \/ tbuf[topic] = <<>>
         THEN WriteFirsts(Tail(keys), sids, schemas, cids, chans, msgs)
         ELSE LET first == tbuf[topic][1]
                  rs    == RegSchemas(TransientOnlySchema(topic), sids, schemas)
                  key   == <<rs.ids[TransientOnlySchema(topic)], topic>>
                  rc    == RegChannels(key, cids, chans)
                  m     == [channel_id |-> rc.ids[key], log_time |-> first[1],
                            data |-> first[2], publish_time |-> first[1],
                            kind |-> "first"]
              IN  WriteFirsts(Tail(keys), rs.ids, rs.reg, rc.ids, rc.reg,
                              Append(msgs, m))

\* After pass 2: the transient-only step.
TransientOnly ==
    /\ pc = "pass2" /\ ~AtFile
    /\ pc' = "finish"
    /\ IF OnlyTransientResults
       THEN LET w == WriteFirsts(tkeys, schema_ids, w_schemas, channel_ids,
                                 w_channels, w_messages)
            IN  /\ schema_ids' = w.sids
                /\ w_schemas' = w.schemas
                /\ channel_ids' = w.cids
                /\ w_channels' = w.chans
                /\ w_messages' = w.msgs
       ELSE UNCHANGED <<regs, w_messages>>
    /\ UNCHANGED <<args, fi, ri, buf, w_finished, qvars, disk, lag, nread,
                   fvars, xvars>>

Finish_Early ==
    /\ pc = "pass2" /\ ~AtFile /\ w_finished = 0
    /\ w_finished' = w_finished + 1
    /\ pc' = "pass2"
    /\ UNCHANGED <<args, fi, ri, regs, buf, w_messages, qvars, disk, lag,
                   nread, fvars, xvars>>

\* writer.finish()
Finish ==
    /\ pc = "finish"
    /\ w_finished' = w_finished + 1
    /\ pc' = "done"
    /\ UNCHANGED <<args, fi, ri, regs, buf, w_messages, qvars, disk, lag,
                   nread, fvars, xvars>>

MergeNext ==
    \/ Pass1Skip \/ Pass1Record \/ Pass1EndFile \/ SortBuffers
    \/ Pass2Skip \/ Pass2Record \/ Pass2EndFile \/ TransientOnly \/ Finish

\* -------------------------------------- merge.py, a reader that raises
\* The handlers of lines 89-101 and 195-207 log the exception; the loop over
\* the results then takes the next result.
NextAfterError_SameFile(f) == f

NextAfterError(f) == f + 1

\* Pass 1: the current transient file cannot be opened, or its reader raises
\* at the record after the ri records it has yielded.
Pass1ReadError ==
    /\ pc = "pass1" /\ AtFile
    /\ HasTransientMarker(results[fi].file_path)
    /\ failed' = failed \cup {[id |-> CurId, at |-> ri]}
    /\ fi' = NextAfterError(fi) /\ ri' = 0
    /\ UNCHANGED <<args, pc, regs, buf, w_messages, w_finished, qvars, disk,
                   lag, nread, fvars, run, first_run, cvars>>

\* Pass 2: the same for the current regular file.
Pass2ReadError ==
    /\ pc = "pass2" /\ AtFile
    /\ ~HasTransientMarker(results[fi].file_path)
    /\ failed' = failed \cup {[id |-> CurId, at |-> ri]}
    /\ fi' = NextAfterError(fi) /\ ri' = 0
    /\ UNCHANGED <<args, pc, regs, buf, w_messages, w_finished, qvars, disk,
                   lag, nread, fvars, run, first_run, cvars>>

\* ------------------------------------------------------------- query.py
\* set(include_topics) if include_topics else None
QuerySet(opt) == IF Truthy(opt) THEN opt ELSE None

InWindow_Exclusive(timestamp) ==
    \E s \in start_ns : s < timestamp /\ timestamp <= end_ns

InWindow_NoEnd(timestamp) == \E s \in start_ns : s <= timestamp

\* start_ns <= timestamp <= end_ns
InWindow(timestamp) == \E s \in start_ns : s <= timestamp /\ timestamp <= end_ns

Querying == pc \in {"query_root", "query_transient"}

\* One record of the file being scanned (process_mcap_file and the loop body
\* of query_mcap_files).
QueryRecord ==
    /\ Querying /\ fi <= Len(mcap_files)
    /\ LET id == mcap_files[fi].id IN
       \E message \in ReadableRecs(id, ri, CliMaxRecs) :
        /\ nread' = Drawn(id)
        /\ disk' = IF disk[id].complete THEN disk
                   ELSE [disk EXCEPT ![id].recs = Append(@, message)]
        /\ IF /\ check_topic_filters(message.topic, QuerySet(include_topics),
                                     QuerySet(exclude_topics))
              /\ InWindow(message.log_time)
           THEN /\ matching_topics' = matching_topics \cup {message.topic}
                /\ file_start_time' =
                       IF file_start_time = {} \/
                          (\E t \in file_start_time : message.log_time < t)
                       THEN {message.log_time} ELSE file_start_time
                /\ file_end_time' =
                       IF file_end_time = {} \/
                          (\E t \in file_end_time : message.log_time > t)
                       THEN {message.log_time} ELSE file_end_time
           ELSE UNCHANGED <<matching_topics, file_start_time, file_end_time>>
        /\ ri' = ri + 1
    /\ UNCHANGED <<args, pc, fi, regs, buf, w_messages, w_finished, end_ns,
                   tree, mcap_files, lag, fvars, xvars>>

\* The scan of a file ends: a QueryResult is appended when a topic matched.
QueryEndFile ==
    /\ Querying /\ fi <= Len(mcap_files)
    /\ LET id == mcap_files[fi].id IN
        /\ CanEnd(id, ri)
        /\ disk' = [disk EXCEPT ![id].complete = TRUE]
    /\ results' =
          IF matching_topics # {}
          THEN Append(results,
                      [file_path |-> mcap_files[fi],
                       matching_topics |-> matching_topics,
                       start_time |-> CHOOSE t \in file_start_time : TRUE,
                       end_time |-> CHOOSE t \in file_end_time : TRUE])
          ELSE results
    /\ matching_topics' = {} /\ file_start_time' = {} /\ file_end_time' = {}
    /\ fi' = fi + 1 /\ ri' = 0
    /\ UNCHANGED <<include_topics, exclude_topics, latched, start_ns, pc, regs,
                   buf, w_messages, w_finished, end_ns, tree, mcap_files, lag,
                   nread, fvars, xvars>>

\* --------------------------------------------------- cli.py, merge command
\* Path(root_dir) / "transient_output", scanned by the second query.
UnderTransientDir(path) == path.dir = "transient_output"

\* The root query has scanned every file: the transient query starts.
RootQueryDone ==
    /\ pc = "query_root" /\ fi > Len(mcap_files)
    /\ pc' = "query_transient"
    /\ mcap_files' = SelectSeq(tree, UnderTransientDir)
    /\ fi' = 1 /\ ri' = 0
    /\ UNCHANGED <<args, regs, buf, w_messages, w_finished, end_ns, tree,
                   matching_topics, file_start_time, file_end_time, disk, lag,
                   nread, fvars, xvars>>

\* results.extend(transient_results); return when there are no results,
\* else call merge_mcap_files.
TransientQueryDone ==
    /\ pc = "query_transient" /\ fi > Len(mcap_files)
    /\ pc' = IF results = <<>> THEN "done" ELSE "pass1"
    /\ fi' = 1 /\ ri' = 0
    /\ UNCHANGED <<args, regs, buf, w_messages, w_finished, qvars, disk, lag,
                   nread, fvars, xvars>>

\* ------------------------------------------------------- utils.py, a call
FilterCall ==
    /\ pc = "filter"
    /\ f_result' = check_topic_filters(f_topic, include_topics, exclude_topics)
    /\ pc' = "filter_done"
    /\ UNCHANGED <<args, fi, ri, regs, buf, w_messages, w_finished, qvars,
                   disk, lag, nread, f_topic, xvars>>

\* ---------------------------------------------------------- initial states
QueryResult(id, dir) ==
    [file_path |-> [id |-> id, dir |-> dir], matching_topics |-> Topics,
     start_time |-> 0, end_time |-> MaxTime]

FilterArgs ==
    { <<None, None>>, <<Some({}), Some({})>>, <<Some({"x"}), Some({})>>,
      <<Some({}), Some({"x"})>> }

\* parse_topics returns a list, never None (mcap_utils.py:25-32).
CliFilterArgs == { fa \in FilterArgs : ~fa[1].none /\ ~fa[2].none }

MergeStart ==
    /\ fi = 1 /\ ri = 0
    /\ schema_ids = [n \in AllSchemaNames |-> 0]
    /\ channel_ids = [k \in SchemaIdRange \X Topics |-> 0]
    /\ tkeys = <<>>
    /\ tbuf = [t \in Topics |-> <<>>]
    /\ p1_channels = 0
    /\ w_schemas = <<>> /\ w_channels = <<>> /\ w_messages = <<>>
    /\ w_finished = 0

NoQuery ==
    /\ end_ns = 0 /\ tree = <<>> /\ mcap_files = <<>>
    /\ matching_topics = {} /\ file_start_time = {} /\ file_end_time = {}

Environment ==
    /\ disk = [id \in 1 .. NumFiles |-> [recs |-> <<>>, complete |-> FALSE]]
    /\ lag \in PublishLags
    /\ nread = 0

NoFilterCall == f_topic = "x" /\ f_result = FALSE

NoFailure == failed = {}

OneRun == run = 1 /\ first_run = <<>>

\* A command line that passes every check of the merge command.
ValidCommand ==
    /\ opts = [time_range |-> FALSE, start |-> "valid", end |-> "valid",
               include_topics_file |-> <<>>, exclude_topics_file |-> <<>>]
    /\ status = ""

\* merge_mcap_files called on any results list.
Init ==
    /\ \E n \in 0 .. NumFiles :
       \E dirs \in [1 .. n -> {"root", "transient_output"}] :
          results = [k \in 1 .. n |-> QueryResult(k, dirs[k])]
    /\ \E fa \in FilterArgs : include_topics = fa[1] /\ exclude_topics = fa[2]
    /\ latched \in 1 .. MaxLatched
    /\ start_ns \in {{}} \cup {{t} : t \in Times}
    /\ pc = "pass1"
    /\ MergeStart /\ NoQuery /\ Environment /\ NoFilterCall /\ NoFailure
    /\ OneRun /\ ValidCommand

Next == MergeNext

Spec == Init /\ [][Next]_vars

\* The merge command run on any directory tree.
InitCli ==
    /\ \E n \in 0 .. NumFiles :
       \E dirs \in [1 .. n -> Dirs] :
          tree = [k \in 1 .. n |-> [id |-> k, dir |-> dirs[k]]]
    /\ mcap_files = tree
    /\ results = <<>>
    /\ \E fa \in CliFilterArgs : include_topics = fa[1] /\ exclude_topics = fa[2]
    /\ latched \in 1 .. MaxLatched
    /\ start_ns \in {{t} : t \in Times}
    /\ end_ns \in Times
    /\ matching_topics = {} /\ file_start_time = {} /\ file_end_time = {}
    /\ pc = "query_root"
    /\ MergeStart /\ Environment /\ NoFilterCall /\ NoFailure /\ OneRun
    /\ ValidCommand

NextCli ==
    \/ QueryRecord \/ QueryEndFile \/ RootQueryDone \/ TransientQueryDone
    \/ MergeNext

SpecCli == InitCli /\ [][NextCli]_vars

\* check_topic_filters called on any topic and any pair of optional sets.
FilterTopics == Topics \cup {"z"}
OptionalSets == {None} \cup { Some(s) : s \in SUBSET Topics }

InitFlt ==
    /\ results = <<>>
    /\ include_topics \in OptionalSets
    /\ exclude_topics \in OptionalSets
    /\ latched = 1 /\ start_ns = {}
    /\ f_topic \in FilterTopics /\ f_result = FALSE
    /\ pc = "filter"
    /\ MergeStart /\ NoQuery
    /\ disk = [id \in 1 .. NumFiles |-> [recs |-> <<>>, complete |-> FALSE]]
    /\ lag = 0 /\ nread = 0
    /\ NoFailure /\ OneRun /\ ValidCommand

NextFlt == FilterCall

SpecFlt == InitFlt /\ [][NextFlt]_vars

\* merge_mcap_files called on results whose files may fail to open or decode.
InitFail == Init /\ lag = 0 /\ start_ns = {}

NextFail == MergeNext \/ Pass1ReadError \/ Pass2ReadError

SpecFail == InitFail /\ [][NextFail]_vars

\* ------------------------------------------- merge.py, called a second time
SchemaIdsAtStart_Kept(old) == old

\* schema_ids: Dict[str, int] = {}
SchemaIdsAtStart(old) == [n \in AllSchemaNames |-> 0]

\* What a run of merge_mcap_files leaves in the output file.
Output ==
    [schemas |-> w_schemas, channels |-> w_channels, messages |-> w_messages]

\* The first run has returned: the same call is made again. Every local
\* starts afresh and the output file is truncated.
Rerun ==
    /\ pc = "done" /\ run = 1
    /\ run' = 2 /\ first_run' = <<Output>>
    /\ pc' = "pass1" /\ fi' = 1 /\ ri' = 0
    /\ schema_ids' = SchemaIdsAtStart(schema_ids)
    /\ channel_ids' = [k \in SchemaIdRange \X Topics |-> 0]
    /\ tkeys' = <<>> /\ tbuf' = [t \in Topics |-> <<>>] /\ p1_channels' = 0
    /\ w_schemas' = <<>> /\ w_channels' = <<>> /\ w_messages' = <<>>
    /\ w_finished' = 0
    /\ UNCHANGED <<args, qvars, disk, lag, nread, fvars, failed, cvars>>

\* The input files, with their contents: CliMaxRecs records at most, the
\* n-th of them carrying the payload n.
RECURSIVE RecsBefore(_, _)
RecsBefore(counts, id) ==
    IF id = 1 THEN 0 ELSE RecsBefore(counts, id - 1) + counts[id - 1]

FileContents(counts, body) ==
    [id \in 1 .. NumFiles |->
        LET before == RecsBefore(counts, id) IN
        [recs |-> [j \in 1 .. counts[id] |->
                      [topic |-> body[before + j][1],
                       schema |-> body[before + j][2],
                       log_time |-> body[before + j][3],
                       publish_time |-> body[before + j][3],
                       data |-> before + j]],
         complete |-> TRUE]]

InitTwice ==
    /\ \E n \in 0 .. NumFiles :
       \E dirs \in [1 .. n -> {"root", "transient_output"}] :
       \E counts \in [1 .. NumFiles -> 0 .. CliMaxRecs] :
       \E body \in [1 .. CliMaxRecs -> Topics \X SchemaNames \X Times] :
          /\ RecsBefore(counts, NumFiles + 1) <= CliMaxRecs
          /\ \A id \in 1 .. NumFiles : id > n => counts[id] = 0
          /\ \A j \in 1 .. CliMaxRecs :
                j > RecsBefore(counts, NumFiles + 1)
                    => body[j] = <<"x", "s1", 0>>
          /\ results = [k \in 1 .. n |-> QueryResult(k, dirs[k])]
          /\ disk = FileContents(counts, body)
    /\ \E fa \in FilterArgs : include_topics = fa[1] /\ exclude_topics = fa[2]
    /\ latched \in 1 .. MaxLatched
    /\ start_ns \in {{}, {1}}
    /\ pc = "pass1"
    /\ lag = 0 /\ nread = 0
    /\ MergeStart /\ NoQuery /\ NoFilterCall /\ NoFailure /\ OneRun
    /\ ValidCommand

NextTwice == MergeNext \/ Rerun

SpecTwice == InitTwice /\ [][NextTwice]_vars

\* ------------------------------------- cli.py, the checks of the command
MaxTopicFiles == 2      \* --include-topics-file / --exclude-topics-file each

\* --start / --end: absent, an ISO 8601 string, or a string that is none.
TimeArgs == {"none", "valid", "invalid"}

\* A path given as topic file: no such file, a file with no topic (empty or
\* blank lines only), or a file whose lines are the topics FileTopics.
TopicFileKinds == {"missing", "empty", "topics"}
FileTopics     == {"x"}
TopicFileLists == UNION { [1 .. n -> TopicFileKinds] : n \in 0 .. MaxTopicFiles }

USAGE_ERROR        == "UsageError"
TOPIC_FILE_MISSING == "Error: Topic file does not exist"
NO_TOPICS          == "No topics specified in topic files"
TIME_PARSE_ERROR   == "ValueError"

\* dateutil's parser.parse raises on a string that is no timestamp.
TimeStringRaises_Never(str) == FALSE

TimeStringRaises(str) == str = "invalid"

CountRejected_Negative(count) == count < 0

\* latched_transient_output_msgs < 1
CountRejected(count) == count < 1

\* The loop over the topic files: stops at the first path that does not
\* exist (or cannot be read), skips a file that holds no topic, and collects
\* the topics of the others.
ScanTopicFiles_SkipMissing(files) ==
    [missing |-> FALSE,
     topics  |-> UNION { IF files[k] = "topics" THEN FileTopics ELSE {}
                         : k \in DOMAIN files }]

ScanTopicFiles(files) ==
    [missing |-> \E k \in DOMAIN files : files[k] = "missing",
     topics  |-> UNION { IF files[k] = "topics" THEN FileTopics ELSE {}
                         : k \in DOMAIN files }]

NoTopicsRead_Never(all_file_topics) == FALSE

\* not all_file_topics
NoTopicsRead(all_file_topics) == all_file_topics = {}

\* start and end as the command uses them: --time-range computes both.
EffectiveTime(str) == IF opts.time_range THEN "valid" ELSE str

\* sys.exit(1), or an exception that leaves the command.
Exit(message) == pc' = "exit" /\ status' = message

\* Validate the time range options and --latched-transient-output-msgs.
ValidateOptions ==
    /\ pc = "options"
    /\ IF opts.time_range /\ (opts.start # "none" \/ opts.end # "none")
       THEN Exit(USAGE_ERROR)
       ELSE IF ~opts.time_range /\ (opts.start = "none" \/ opts.end = "none")
       THEN Exit(USAGE_ERROR)
       ELSE IF CountRejected(latched)
       THEN Exit(USAGE_ERROR)
       ELSE pc' = "include_files" /\ UNCHANGED status
    /\ UNCHANGED <<args, fi, ri, regs, buf, w_messages, w_finished, qvars, disk,
                   lag, nread, fvars, failed, run, first_run, opts>>

\* Handle multiple include-topics-file.
ReadIncludeTopicFiles ==
    /\ pc = "include_files"
    /\ LET scan == ScanTopicFiles(opts.include_topics_file) IN
       IF opts.include_topics_file = <<>>
       THEN pc' = "exclude_files" /\ UNCHANGED <<status, include_topics>>
       ELSE IF scan.missing
       THEN Exit(TOPIC_FILE_MISSING) /\ UNCHANGED include_topics
       ELSE IF NoTopicsRead(scan.topics)
       THEN Exit(NO_TOPICS) /\ UNCHANGED include_topics
       ELSE /\ include_topics' = Some(include_topics.v \cup scan.topics)
            /\ pc' = "exclude_files" /\ UNCHANGED status
    /\ UNCHANGED <<results, exclude_topics, latched, start_ns, fi, ri, regs,
                   buf, w_messages, w_finished, qvars, disk, lag, nread, fvars,
                   failed, run, first_run, opts>>

\* Handle multiple exclude-topics-file.
ReadExcludeTopicFiles ==
    /\ pc = "exclude_files"
    /\ LET scan == ScanTopicFiles(opts.exclude_topics_file) IN
       IF opts.exclude_topics_file = <<>>
       THEN pc' = "parse_start" /\ UNCHANGED <<status, exclude_topics>>
       ELSE IF scan.missing
       THEN Exit(TOPIC_FILE_MISSING) /\ UNCHANGED exclude_topics
       ELSE /\ exclude_topics' = Some(exclude_topics.v \cup scan.topics)
            /\ pc' = "parse_start" /\ UNCHANGED status
    /\ UNCHANGED <<results, include_topics, latched, start_ns, fi, ri, regs,
                   buf, w_messages, w_finished, qvars, disk, lag, nread, fvars,
                   failed, run, first_run, opts>>

\* start_ns = parse_iso_time(start)
ParseStart ==
    /\ pc = "parse_start"
    /\ IF TimeStringRaises(EffectiveTime(opts.start))
       THEN Exit(TIME_PARSE_ERROR) /\ UNCHANGED start_ns
       ELSE /\ start_ns' = {MaxTime - 1}
            /\ pc' = "query_parse" /\ UNCHANGED status
    /\ UNCHANGED <<results, include_topics, exclude_topics, latched, fi, ri,
                   regs, buf, w_messages, w_finished, qvars, disk, lag, nread,
                   fvars, failed, run, first_run, opts>>

\* query_mcap_files parses start and end before it looks for files.
QueryParseTimes ==
    /\ pc = "query_parse"
    /\ IF TimeStringRaises(EffectiveTime(opts.end))
       THEN Exit(TIME_PARSE_ERROR) /\ UNCHANGED end_ns
       ELSE /\ end_ns' = MaxTime
            /\ pc' = "query_root" /\ UNCHANGED status
    /\ UNCHANGED <<args, fi, ri, regs, buf, w_messages, w_finished, tree,
                   mcap_files, matching_topics, file_start_time, file_end_time,
                   disk, lag, nread, fvars, failed, run, first_run, opts>>

\* with open(output_path, "wb"): the output file exists from the start of
\* merge_mcap_files on.
OutputOpened == pc \in {"pass1", "pass2", "finish"} \/ w_finished > 0

\* The merge command run on any command line, over a tree of one file at most.
InitPre ==
    /\ opts \in [time_range : BOOLEAN, start : TimeArgs, end : TimeArgs,
                  include_topics_file : TopicFileLists,
                  exclude_topics_file : TopicFileLists]
    /\ status = ""
    /\ latched \in 0 .. MaxLatched
    /\ include_topics = Some({}) /\ exclude_topics = Some({})
    /\ start_ns = {} /\ end_ns = 0
    /\ tree \in {<<>>} \cup { <<[id |-> 1, dir |-> d]>> : d \in Dirs }
    /\ mcap_files = tree
    /\ results = <<>>
    /\ matching_topics = {} /\ file_start_time = {} /\ file_end_time = {}
    /\ pc = "options"
    /\ MergeStart /\ Environment /\ NoFilterCall /\ NoFailure /\ OneRun

NextPre ==
    \/ ValidateOptions \/ ReadIncludeTopicFiles \/ ReadExcludeTopicFiles
    \/ ParseStart \/ QueryParseTimes
    \/ NextCli

SpecPre == InitPre /\ [][NextPre]_vars

\* ------------------------------------------------------------ properties
Min(a, b) == IF a <= b THEN a ELSE b

MsgTopic(m) == w_channels[m.channel_id].topic
MsgIdx      == DOMAIN w_messages
Live        == { i \in MsgIdx : w_messages[i].kind = "live" }
Latched     == { j \in MsgIdx : w_messages[j].kind = "latched" }
Firsts      == { j \in MsgIdx : w_messages[j].kind = "first" }

\* The live message a latched message follows.
Trigger(j) ==
    CHOOSE i \in Live : i < j /\ \A k \in Live : k < j => k <= i

LatchedOn(i, Y) ==
    { j \in Latched : Trigger(j) = i /\ MsgTopic(w_messages[j]) = Y }

TransientTopics == { tkeys[k] : k \in DOMAIN tkeys }

EarlierEntries(Y, T) == { k \in DOMAIN tbuf[Y] : tbuf[Y][k][1] < T }

\* The timestamp of the buffer entry a message of topic Y carries.
SourceTs(j) ==
    LET Y == MsgTopic(w_messages[j])
        k == CHOOSE k \in DOMAIN tbuf[Y] : tbuf[Y][k][2] = w_messages[j].data
    IN  tbuf[Y][k][1]

\* C1: after every live message with timestamp T and for every admitted
\* transient topic Y, the number of latched messages written on Y equals
\* min(latched_count, number of entries of TransientBuffer[Y] earlier than T).
C1_EmissionCount ==
    \A i \in Live : \A Y \in TransientTopics :
        Admitted(Y) =>
            Cardinality(LatchedOn(i, Y)) =
                Min(latched,
                    Cardinality(EarlierEntries(Y, w_messages[i].log_time)))

\* C1 happens: more earlier entries than latched_count, and latched_count
\* latched messages written.
C1_Witness ==
    \E i \in Live : \E Y \in TransientTopics :
        /\ Cardinality(EarlierEntries(Y, w_messages[i].log_time)) > latched
        /\ Cardinality(LatchedOn(i, Y)) = latched

\* C2: a latched message has log_time start_ns when its buffer entry is
\* earlier than start_ns, and the timestamp T of its live message otherwise
\* (always T when start_ns is None).
C2_Clamping ==
    \A j \in Latched :
        LET T == w_messages[Trigger(j)].log_time IN
        /\ start_ns = {} => w_messages[j].log_time = T
        /\ \A s \in start_ns :
              w_messages[j].log_time = IF SourceTs(j) < s THEN s ELSE T

\* C2 happens: one latched message clamped to a start_ns other than T, and
\* one that keeps T.
C2_Witness ==
    \E s \in start_ns : \E j, k \in Latched :
        /\ SourceTs(j) < s /\ w_messages[j].log_time = s
        /\ w_messages[Trigger(j)].log_time # s
        /\ SourceTs(k) >= s /\ w_messages[k].log_time > s

\* C5: when the results hold only transient files, the output holds exactly
\* one message per admitted transient topic with a non-empty buffer, carrying
\* the timestamp and payload of an entry of minimum timestamp, and no other
\* message.
C5_TransientOnlyOutput ==
    (pc \in {"finish", "done"} /\ OnlyTransientResults) =>
        LET Tops == { Y \in Topics : Admitted(Y) /\ tbuf[Y] # <<>> } IN
        /\ Len(w_messages) = Cardinality(Tops)
        /\ \A Y \in Tops : \E j \in MsgIdx :
              /\ MsgTopic(w_messages[j]) = Y
              /\ \E k \in DOMAIN tbuf[Y] :
                    tbuf[Y][k] = <<w_messages[j].log_time, w_messages[j].data>>
              /\ \A k \in DOMAIN tbuf[Y] :
                    tbuf[Y][k][1] >= w_messages[j].log_time

\* C5 happens: the entry written was read after a later entry of its topic.
C5_Witness ==
    /\ pc = "done" /\ OnlyTransientResults
    /\ \E j \in Firsts :
       \E k \in DOMAIN tbuf[MsgTopic(w_messages[j])] :
          LET e == tbuf[MsgTopic(w_messages[j])][k] IN
          e[2] < w_messages[j].data /\ e[1] > w_messages[j].log_time

\* C6, as claimed: a latched message has publish time T, the log time of its
\* live record.
C6_PublishIsLogTime ==
    \A j \in Latched :
        w_messages[j].publish_time = w_messages[Trigger(j)].log_time

\* C6, amended: a latched message has the publish time of its live record.
C6_PublishOfRecord ==
    \A j \in Latched :
        w_messages[j].publish_time = w_messages[Trigger(j)].publish_time

\* C6 happens: a latched message follows a record published after its log time.
C6_Witness ==
    \E j \in Latched :
        w_messages[Trigger(j)].publish_time # w_messages[Trigger(j)].log_time

\* C7, as claimed: no latched message is on the topic of its live record.
C7_OnlyOtherTopics ==
    \A j \in Latched :
        MsgTopic(w_messages[j]) # MsgTopic(w_messages[Trigger(j)])

\* C7, amended: the topics of the latched messages of a live record at T are
\* all the admitted transient topics with an entry earlier than T, the topic
\* of the live record included.
C7_EveryTransientTopic ==
    \A i \in Live :
        { MsgTopic(w_messages[j]) : j \in { l \in Latched : Trigger(l) = i } }
          = { Y \in TransientTopics :
                Admitted(Y) /\ EarlierEntries(Y, w_messages[i].log_time) # {} }

\* C7 happens: a latched message on the topic of its live record.
C7_Witness ==
    \E j \in Latched :
        MsgTopic(w_messages[j]) = MsgTopic(w_messages[Trigger(j)])

\* C8, as claimed: pass 2 registers no channel for a transient topic but the
\* channel of a live record, and every latched message is written on a
\* channel registered in pass 1.
C8_TransientChannelsReused ==
    pc = "pass2" =>
        /\ \A j \in Latched : w_messages[j].channel_id <= p1_channels
        /\ \A c \in DOMAIN w_channels :
              (c > p1_channels /\ w_channels[c].topic \in TransientTopics) =>
                  \E i \in Live : w_messages[i].channel_id = c

\* C9, as claimed: the message of the transient-only step is written on a
\* channel bound to a schema that pass 1 registered for its topic.
C9_OwnSchema ==
    \A j \in Firsts :
        \E c \in 1 .. p1_channels :
            /\ w_channels[c].topic = MsgTopic(w_messages[j])
            /\ w_channels[c].schema_id =
                   w_channels[w_messages[j].channel_id].schema_id

\* The records file id holds, and the topics the claims call matched: the
\* admitted topics with a record in the inclusive window [start, end].
FileRecs(id) == { disk[id].recs[k] : k \in DOMAIN disk[id].recs }

MatchedTopics(id) ==
    { r.topic : r \in { q \in FileRecs(id) :
          /\ check_topic_filters(q.topic, include_topics, exclude_topics)
          /\ \E s \in start_ns : s <= q.log_time /\ q.log_time <= end_ns } }

\* The scans of file k of the tree that have ended: by the root query, and by
\* the query of <root>/transient_output.
RootScanned(k) == pc # "query_root" \/ fi > k

TransientScanned(k) ==
    /\ UnderTransientDir(tree[k])
    /\ \/ ~Querying
       \/ /\ pc = "query_transient"
          /\ \E i \in DOMAIN mcap_files : mcap_files[i].id = k /\ fi > i

\* C3: a query returns a QueryResult for a file if and only if the file holds
\* a record of an admitted topic with a timestamp in [s, e], and the result's
\* matching_topics is the set of the admitted topics with such a record. The
\* records of a file are those its reader yields; the root query and the
\* query of <root>/transient_output each return their own result.
C3_QueryResults ==
    /\ \A k \in DOMAIN results :
          /\ results[k].matching_topics # {}
          /\ results[k].matching_topics = MatchedTopics(results[k].file_path.id)
    /\ \A k \in DOMAIN tree :
          Cardinality({ i \in DOMAIN results : results[i].file_path.id = k }) =
              (IF RootScanned(k) /\ MatchedTopics(k) # {} THEN 1 ELSE 0)
            + (IF TransientScanned(k) /\ MatchedTopics(k) # {} THEN 1 ELSE 0)

\* C3 happens: a result whose file also holds a record of an admitted topic
\* outside the window, after a scanned file with no result.
C3_Witness ==
    /\ pc = "query_transient"
    /\ \E k \in DOMAIN results :
       \E r \in FileRecs(results[k].file_path.id) :
          /\ r.topic \notin results[k].matching_topics
          /\ check_topic_filters(r.topic, include_topics, exclude_topics)
    /\ \E k \in DOMAIN tree :
          \A i \in DOMAIN results : results[i].file_path.id # k

\* C4, as claimed: with one regular file holding one message after start, one
\* file of the transient subtree holding one message before start, and a
\* latched count of 1, the merge command writes 2 messages and the message of
\* the transient topic has log_time = start.
C4_TransientCarried ==
    \A a, b \in DOMAIN tree : \A s \in start_ns :
        ( /\ pc = "done" /\ Len(tree) = 2 /\ latched = 1
          /\ tree[a].dir = "root" /\ HasTransientMarker(tree[b])
          /\ Len(disk[a].recs) = 1 /\ Len(disk[b].recs) = 1
          /\ disk[a].recs[1].log_time > s /\ disk[a].recs[1].log_time <= end_ns
          /\ disk[b].recs[1].log_time < s
          /\ disk[a].recs[1].topic # disk[b].recs[1].topic
          /\ Admitted(disk[a].recs[1].topic) /\ Admitted(disk[b].recs[1].topic) )
        => /\ Len(w_messages) = 2
           /\ \E j \in MsgIdx :
                 /\ MsgTopic(w_messages[j]) = disk[b].recs[1].topic
                 /\ w_messages[j].log_time = s

\* C10: check_topic_filters returns true exactly when (include is empty or
\* absent, or holds the topic) and (exclude is empty or absent, or does not
\* hold the topic); a topic in both sets is rejected.
C10_FilterContract ==
    pc = "filter_done" =>
        /\ f_result =
             ( /\ \/ include_topics.none \/ include_topics.v = {}
                  \/ f_topic \in include_topics.v
               /\ \/ exclude_topics.none \/ exclude_topics.v = {}
                  \/ f_topic \notin exclude_topics.v )
        /\ (f_topic \in include_topics.v /\ f_topic \in exclude_topics.v)
              => ~f_result

\* C10 happens: the call has returned for a topic that is in both sets.
C10_Witness ==
    /\ pc = "filter_done" /\ ~f_result
    /\ f_topic \in include_topics.v /\ f_topic \in exclude_topics.v

\* The files whose reader raised, and those that raised before any record.
FailedIds   == { f.id : f \in failed }
FailedEmpty == { f.id : f \in { g \in failed : g.at = 0 } }

\* C11, as claimed: the healthy files contribute what they would contribute
\* without the failing files. Here every regular result is a file that fails
\* before its first record and the transient results are healthy, so the merge
\* must write what it writes for the transient results alone: one message per
\* admitted transient topic with a non-empty buffer.
C11_FailingFilesIgnored ==
    ( /\ pc = "done"
      /\ \A k \in DOMAIN results :
            HasTransientMarker(results[k].file_path)
                <=> results[k].file_path.id \notin FailedIds
      /\ FailedIds = FailedEmpty )
    => /\ w_finished = 1
       /\ Len(w_messages) =
             Cardinality({ Y \in Topics : Admitted(Y) /\ tbuf[Y] # <<>> })

\* C12: when the reader of the current file raises, what the file's earlier
\* records wrote and buffered stays (the step changes neither the output nor
\* the buffers, and later steps only add to them), the loop moves to the next
\* result of the same pass, and no record is read from a file whose reader
\* has raised.
C12_DecodeFailure ==
    [][ /\ failed' # failed =>
              /\ UNCHANGED <<w_messages, w_schemas, w_channels, tbuf, tkeys>>
              /\ pc' = pc /\ fi' = fi + 1
        /\ SubSeq(w_messages', 1, Len(w_messages)) = w_messages
        /\ \A Y \in Topics : Len(tbuf'[Y]) >= Len(tbuf[Y])
        /\ nread' # nread => CurId \notin FailedIds ]_vars

\* C12 happens: the first of two regular files raised after one record, and
\* a record of each of the two files has been written.
C12_Witness ==
    /\ pc = "done" /\ Len(results) = 2 /\ Cardinality(Live) = 2
    /\ ~HasTransientMarker(results[1].file_path)
    /\ ~HasTransientMarker(results[2].file_path)
    /\ [id |-> results[1].file_path.id, at |-> 1] \in failed

OptionsValid ==
    /\ IF opts.time_range THEN opts.start = "none" /\ opts.end = "none"
       ELSE opts.start # "none" /\ opts.end # "none"
    /\ latched >= 1

Given(files, kind) == \E k \in DOMAIN files : files[k] = kind

\* The command has gone past its checks: it queries, merges, or has returned.
Proceeded ==
    pc \in {"query_root", "query_transient", "pass1", "pass2", "finish", "done"}

\* C14: when the include-topics files of a command line with valid time and
\* count options are all present and hold no topic, the command exits with
\* "No topics specified in topic files" (exit code 1), never queries and never
\* opens the output.
C14_NoTopicsInFiles ==
    ( /\ OptionsValid
      /\ opts.include_topics_file # <<>>
      /\ \A k \in DOMAIN opts.include_topics_file :
            opts.include_topics_file[k] = "empty" )
    => /\ ~Proceeded /\ ~OutputOpened /\ nread = 0
       /\ pc \in {"options", "include_files", "exit"}
       /\ pc = "exit" => status = "No topics specified in topic files"

\* C14 happens: the command has exited on two include-topics files without
\* a topic.
C14_Witness ==
    /\ pc = "exit" /\ status = "No topics specified in topic files"
    /\ opts.include_topics_file = <<"empty", "empty">>
    /\ tree # <<>>

\* C15, as claimed: a topic file that is present and holds no topic, given as
\* include-topics or exclude-topics file, alone or among files with topics,
\* makes the command abort before any query or merge.
C15_EmptyTopicFileFatal ==
    ( /\ OptionsValid
      /\ \/ Given(opts.include_topics_file, "empty")
         \/ Given(opts.exclude_topics_file, "empty") )
    => ~Proceeded

\* C16, as claimed: a topic file that does not exist, given as include-topics
\* or exclude-topics file on a command line with valid time and count options,
\* makes the command exit with "Error: Topic file does not exist" before any
\* query and before the output is opened.
C16_MissingTopicFile ==
    ( /\ OptionsValid
      /\ \/ Given(opts.include_topics_file, "missing")
         \/ Given(opts.exclude_topics_file, "missing") )
    => /\ ~Proceeded /\ ~OutputOpened /\ nread = 0
       /\ pc = "exit" => status = "Error: Topic file does not exist"

\* C16, amended: the command exits before any query and before the output is
\* opened; the message is "Error: Topic file does not exist", except that it
\* is "No topics specified in topic files" when the include-topics files all
\* exist and hold no topic (the missing file is then an exclude-topics file).
C16_MissingOrNoTopics ==
    ( /\ OptionsValid
      /\ \/ Given(opts.include_topics_file, "missing")
         \/ Given(opts.exclude_topics_file, "missing") )
    => /\ ~Proceeded /\ ~OutputOpened /\ nread = 0
       /\ pc = "exit" =>
             status =
                IF /\ opts.include_topics_file # <<>>
                   /\ \A k \in DOMAIN opts.include_topics_file :
                         opts.include_topics_file[k] = "empty"
                THEN "No topics specified in topic files"
                ELSE "Error: Topic file does not exist"

\* C16 happens: the command has exited on a missing exclude-topics file after
\* reading two include-topics files, one without topics and one with topics.
C16_Witness ==
    /\ pc = "exit" /\ status = "Error: Topic file does not exist"
    /\ Given(opts.exclude_topics_file, "missing")
    /\ ~Given(opts.include_topics_file, "missing")
    /\ Given(opts.include_topics_file, "empty")
    /\ include_topics = Some(FileTopics)

\* The fatal pre-flight errors of a command line: an invalid combination of
\* the time options, a count below 1, a topic file that does not exist,
\* include-topics files without any topic, a start or end string that is no
\* timestamp.
PreflightFault ==
    \/ ~OptionsValid
    \/ Given(opts.include_topics_file, "missing")
    \/ Given(opts.exclude_topics_file, "missing")
    \/ /\ opts.include_topics_file # <<>>
       /\ ~Given(opts.include_topics_file, "topics")
    \/ ~opts.time_range /\ (opts.start = "invalid" \/ opts.end = "invalid")

\* C17: a run of the merge command that ends in a fatal pre-flight error has
\* read no input file and has not opened the output; a command line with
\* such an error never gets as far as opening the output, and every run the
\* command exits from with an error is such a run.
C17_NoOutputOnPreflightError ==
    /\ pc = "exit" => status # "" /\ PreflightFault
    /\ status # "" => pc = "exit"
    /\ PreflightFault =>
          /\ ~OutputOpened /\ nread = 0 /\ results = <<>> /\ pc # "done"
          /\ pc \notin {"query_root", "query_transient"}

\* C17 happens: the command has exited on an end string that is no timestamp,
\* the last of its checks, with a file in the tree.
C17_Witness ==
    /\ pc = "exit" /\ status = "ValueError"
    /\ opts.start = "valid" /\ opts.end = "invalid"
    /\ Given(opts.include_topics_file, "topics")
    /\ tree # <<>>

\* C19: a command line with a latched count below 1 gets a usage error from
\* the first check of the command, before any query or merge: the merge
\* engine never runs with a count below 1.
C19_CountBelowOneRejected ==
    /\ latched < 1 =>
          /\ pc \in {"options", "exit"}
          /\ pc = "exit" => status = "UsageError"
          /\ nread = 0 /\ ~OutputOpened
    /\ pc \in {"pass1", "pass2", "finish"} => latched >= 1

\* C19 happens: the command has exited on a count of 0 given with valid time
\* options.
C19_Witness ==
    /\ pc = "exit" /\ status = "UsageError" /\ latched = 0
    /\ ~opts.time_range /\ opts.start = "valid" /\ opts.end = "valid"
    /\ tree # <<>>

\* The timestamps of the matched records of file id: admitted topic,
\* timestamp in the inclusive window.
MatchedTimes(id) ==
    { q.log_time : q \in { r \in FileRecs(id) :
          /\ check_topic_filters(r.topic, include_topics, exclude_topics)
          /\ \E s \in start_ns : s <= r.log_time /\ r.log_time <= end_ns } }

\* C18: every QueryResult has a non-empty matching_topics; its start_time and
\* end_time are the least and the greatest timestamp of the matched records of
\* its file, so start_time <= end_time and both lie in the query window.
C18_ResultBounds ==
    \A k \in DOMAIN results :
        LET r == results[k]
            M == MatchedTimes(r.file_path.id)
        IN  /\ r.matching_topics # {}
            /\ r.start_time \in M /\ \A t \in M : r.start_time <= t
            /\ r.end_time \in M /\ \A t \in M : t <= r.end_time
            /\ r.start_time <= r.end_time
            /\ \A s \in start_ns : s <= r.start_time
            /\ r.end_time <= end_ns

\* C18 happens: a result of a file whose later matched record came first.
C18_Witness ==
    \E k \in DOMAIN results :
        LET recs == disk[results[k].file_path.id].recs IN
        /\ results[k].start_time < results[k].end_time
        /\ Len(recs) = 2
        /\ recs[1].log_time = results[k].end_time
        /\ recs[2].log_time = results[k].start_time

\* C20: writer.finish() is called once in a merge run, as its last step: the
\* call ends the run, nothing is registered or written after it, and a run
\* that has returned has made the call, whatever files failed on the way.
C20_FinalizedOnceAtEnd ==
    [][ /\ w_finished' # w_finished =>
              w_finished = 0 /\ w_finished' = 1 /\ pc' = "done"
        /\ w_finished >= 1 => UNCHANGED <<w_schemas, w_channels, w_messages>>
        /\ pc' = "done" => w_finished' = 1 ]_vars

\* C20 happens: a run has returned after the step of the transient-only
\* merge wrote a message, and a transient file failed on the way.
C20_Witness ==
    /\ pc = "done" /\ w_finished = 1
    /\ Firsts # {} /\ failed # {}

\* What the filter contract says of a topic, written out: rejected when a
\* non-empty include set lacks it or a non-empty exclude set holds it.
Rejected(topic) ==
    \/ ~include_topics.none /\ include_topics.v # {}
          /\ topic \notin include_topics.v
    \/ ~exclude_topics.none /\ topic \in exclude_topics.v

\* A record as the output should carry it.
Verbatim(r) ==
    [topic |-> r.topic, log_time |-> r.log_time,
     publish_time |-> r.publish_time, data |-> r.data]

\* The admitted records of the regular files among the first k results, in
\* the order of the results and, within a file, in read order.
RECURSIVE RegularRecords(_)
RegularRecords(k) ==
    IF k = 0 THEN <<>>
    ELSE LET path == results[k].file_path
             Keep(r) == ~Rejected(r.topic)
             recs == SelectSeq(disk[path.id].recs, Keep)
         IN  RegularRecords(k - 1) \o
                (IF path.dir = "root"
                 THEN [j \in DOMAIN recs |-> Verbatim(recs[j])] ELSE <<>>)

\* The live messages of the output, in the order written.
LiveMessages ==
    LET IsLive(m) == m.kind = "live"
        live == SelectSeq(w_messages, IsLive)
    IN  [j \in DOMAIN live |->
            [topic |-> MsgTopic(live[j]), log_time |-> live[j].log_time,
             publish_time |-> live[j].publish_time, data |-> live[j].data]]

\* C21, as claimed: when merge returns, the live messages of the output are
\* the admitted records of the regular result files, each once and verbatim,
\* in the order of the results list and within a file in read order; every
\* latched message follows a live message.
C21_LiveVerbatimInOrder ==
    /\ pc = "done" => LiveMessages = RegularRecords(Len(results))
    /\ \A j \in Latched : \E i \in Live : i < j

\* The same for a call whose include_topics and exclude_topics are lists.
LiveVerbatimWithLists ==
    (~include_topics.none /\ ~exclude_topics.none) => C21_LiveVerbatimInOrder

\* The position in TransientBuffer[Y] of the entry a message carries.
SourceIdx(j) ==
    LET Y == MsgTopic(w_messages[j])
    IN  CHOOSE k \in DOMAIN tbuf[Y] : tbuf[Y][k][2] = w_messages[j].data

\* C22: the entries emitted for topic Y after a live record at T are entries
\* of TransientBuffer[Y] strictly earlier than T, are latched_count of them
\* (all of them when there are fewer), no entry earlier than T that is left
\* out has a greater timestamp than an emitted one, and they are written in
\* ascending timestamp order.
C22_LatestEarlierEntries ==
    \A i \in Live : \A Y \in TransientTopics :
        LET T    == w_messages[i].log_time
            out  == LatchedOn(i, Y)
            sent == { SourceIdx(j) : j \in out }
        IN  /\ \A j \in out : SourceTs(j) < T
            /\ Cardinality(sent) = Cardinality(out)
            /\ Cardinality(sent) =
                   Min(latched, Cardinality(EarlierEntries(Y, T)))
            /\ \A k \in EarlierEntries(Y, T) \ sent : \A l \in sent :
                   tbuf[Y][k][1] <= tbuf[Y][l][1]
            /\ \A j, l \in out : j < l => SourceTs(j) <= SourceTs(l)

\* C22 happens: of two earlier entries of a topic, read latest first, the
\* later one alone was emitted.
C22_Witness ==
    \E i \in Live : \E Y \in TransientTopics : \E j \in LatchedOn(i, Y) :
        /\ latched = 1
        /\ \E k \in EarlierEntries(Y, w_messages[i].log_time) :
              /\ tbuf[Y][k][1] < SourceTs(j)
              /\ tbuf[Y][k][2] > w_messages[j].data
              /\ \A l \in LatchedOn(i, Y) : SourceIdx(l) # k

Ascending(s) == \A a, b \in DOMAIN s : a < b => s[a][1] <= s[b][1]

\* C23: pass 1 writes no message, it only registers schemas and channels and
\* fills the buffers; it ends when the loop has gone through every result,
\* and leaves every buffer sorted; a message is only written after that.
C23_Pass1Barrier ==
    [][ /\ pc = "pass1" => w_messages' = w_messages
        /\ (pc = "pass1" /\ pc' # "pass1") =>
              /\ fi > Len(results)
              /\ \A Y \in Topics : Ascending(tbuf'[Y])
        /\ w_messages' # w_messages =>
              /\ pc = "pass2"
              /\ \A Y \in Topics : Ascending(tbuf[Y]) ]_vars

\* C23 happens: pass 1 has registered two channels and buffered two entries
\* out of order, nothing is written, and the second pass is about to start.
C23_Witness ==
    /\ pc = "pass1" /\ fi > Len(results)
    /\ Len(w_channels) = 2 /\ w_messages = <<>>
    /\ \E Y \in Topics : ~Ascending(tbuf[Y])

\* The record of the input files that carries the payload d.
RecordOf(d) ==
    CHOOSE r \in UNION { FileRecs(id) : id \in DOMAIN disk } : r.data = d

\* C24: no schema name is registered twice and no (schema id, topic) pair is
\* registered twice; every live message is on the one channel of its record's
\* schema name and topic, whichever record of that key came first.
C24_RegisteredOncePerKey ==
    /\ \A a, b \in DOMAIN w_schemas : a # b => w_schemas[a] # w_schemas[b]
    /\ \A a, b \in DOMAIN w_channels : a # b => w_channels[a] # w_channels[b]
    /\ \A i \in Live :
          LET r == RecordOf(w_messages[i].data)
              c == w_channels[w_messages[i].channel_id]
          IN  /\ c.topic = r.topic
              /\ c.schema_id \in DOMAIN w_schemas
              /\ w_schemas[c.schema_id] = r.schema

\* C24 happens: the records of two files, of one schema name and one topic,
\* were written as two live messages on the one channel registered.
C24_Witness ==
    /\ Len(w_schemas) = 1 /\ Len(w_channels) = 1 /\ Len(results) = 2
    /\ Len(disk[1].recs) = 1
    /\ \E i, j \in Live :
          /\ i < j /\ w_messages[i].channel_id = w_messages[j].channel_id

\* C25: every message of the output is on a channel the writer has
\* registered, and every registered channel is bound to a schema the writer
\* has registered.
C25_ReferencesRegistered ==
    /\ \A j \in MsgIdx : w_messages[j].channel_id \in DOMAIN w_channels
    /\ \A c \in DOMAIN w_channels :
          w_channels[c].schema_id \in DOMAIN w_schemas

\* C25 happens: a latched message on a channel that pass 2 registered, bound
\* to a schema that pass 2 registered.
C25_Witness ==
    \E j \in Latched :
        /\ w_messages[j].channel_id > p1_channels
        /\ w_messages[j].channel_id \in DOMAIN w_channels
        /\ \A c \in 1 .. p1_channels :
              w_channels[c].schema_id #
                  w_channels[w_messages[j].channel_id].schema_id

\* The directory of the file that holds the record with payload d.
DirOf(d) ==
    tree[CHOOSE id \in DOMAIN tree : \E r \in FileRecs(id) : r.data = d].dir

BufferedPayloads ==
    UNION { { tbuf[Y][k][2] : k \in DOMAIN tbuf[Y] } : Y \in Topics }

\* C26, as claimed: the records buffered come from the files under the
\* directory transient_output, and the records written as live messages from
\* the other files.
C26_PartitionBySegment ==
    /\ \A d \in BufferedPayloads : DirOf(d) = "transient_output"
    /\ \A i \in Live : DirOf(w_messages[i].data) # "transient_output"

\* The path holds the string transient_output anywhere: in the name of the
\* directory transient_output, and of a directory such as transient_outputs.
ContainsMarker(dir) == dir \in {"transient_output", "transient_outputs"}

PartitionedByMarker ==
    /\ \A d \in BufferedPayloads : ContainsMarker(DirOf(d))
    /\ \A i \in Live : ~ContainsMarker(DirOf(w_messages[i].data))

\* C26, amended: the records buffered come from the files whose path holds
\* the string transient_output, and the live messages from the other files;
\* pass 1 reads only the former and pass 2 only the latter, each going
\* through the results in their order.
C26_PartitionByMarker ==
    [][ /\ PartitionedByMarker'
        /\ (nread' # nread \/ ri' > ri) /\ pc = "pass1" =>
              ContainsMarker(results[fi].file_path.dir)
        /\ (nread' # nread \/ ri' > ri) /\ pc = "pass2" =>
              ~ContainsMarker(results[fi].file_path.dir)
        /\ pc' = pc => fi' >= fi ]_vars

\* C26 happens: a record of a file under transient_outputs is buffered and a
\* record of a file of the root is written as live message.
C26_Witness ==
    /\ \E d \in BufferedPayloads : DirOf(d) = "transient_outputs"
    /\ \E i \in Live : DirOf(w_messages[i].data) = "root"

\* The (timestamp, payload) pairs of the admitted records of topic Y that
\* the transient result files hold.
TransientPairs(Y) ==
    { <<r.log_time, r.data>> :
        r \in { q \in UNION { FileRecs(results[k].file_path.id) :
                     k \in { i \in DOMAIN results :
                                results[i].file_path.dir # "root" } } :
                   q.topic = Y /\ ~Rejected(Y) } }

\* C27, as claimed: once pass 1 has ended, the buffer of every topic is
\* ascending by timestamp and holds exactly the pairs of the admitted records
\* read from the transient files, each once.
C27_BufferExactAndSorted ==
    pc \in {"pass2", "finish", "done"} =>
        \A Y \in Topics :
            /\ Ascending(tbuf[Y])
            /\ { tbuf[Y][k] : k \in DOMAIN tbuf[Y] } = TransientPairs(Y)
            /\ Len(tbuf[Y]) = Cardinality(TransientPairs(Y))

\* The same for a call whose include_topics and exclude_topics are lists,
\* with the buffers left alone from the end of pass 1 on.
BufferExactWithLists ==
    [][ (~include_topics.none /\ ~exclude_topics.none) =>
          /\ C27_BufferExactAndSorted'
          /\ pc \in {"pass2", "finish"} => UNCHANGED <<tbuf, tkeys>> ]_vars

\* C28: no message of the output, live, latched or of the transient-only
\* step, is on a topic the filter rejects; no rejected topic has a channel or
\* a buffer.
C28_NoRejectedTopic ==
    /\ \A c \in DOMAIN w_channels : ~Rejected(w_channels[c].topic)
    /\ \A j \in MsgIdx :
          /\ w_messages[j].channel_id \in DOMAIN w_channels
          /\ ~Rejected(MsgTopic(w_messages[j]))
    /\ \A Y \in Topics : Rejected(Y) => tbuf[Y] = <<>>
    /\ \A k \in DOMAIN tkeys : ~Rejected(tkeys[k])

\* C28 happens: of three records read under a filter that rejects a topic,
\* one was buffered and re-emitted after the one written live, and one left
\* no trace.
C28_Witness ==
    /\ pc = "done" /\ nread = 3
    /\ \E Y \in Topics : Rejected(Y)
    /\ Cardinality(Live) = 1 /\ Cardinality(Latched) = 1
    /\ Cardinality(BufferedPayloads) = 1

\* C29, as claimed: the log_time of a latched message is not later than the
\* timestamp T of the live record it follows, whatever T is, also when T lies
\* before start_ns.
C29_LatchedNotAfterTrigger ==
    \A j \in Latched :
        w_messages[j].log_time <= w_messages[Trigger(j)].log_time

\* C30, as claimed: the results the merge command hands to the merge engine
\* hold every file once at most, and no record is buffered twice.
C30_EachFileOnce ==
    pc \in {"pass1", "pass2", "finish"} =>
        /\ \A a, b \in DOMAIN results :
              a # b => results[a].file_path.id # results[b].file_path.id
        /\ \A Y \in Topics : \A a, b \in DOMAIN tbuf[Y] :
              a # b => tbuf[Y][a][2] # tbuf[Y][b][2]

=============================================================================
